---- MODULE Spec2Model ----
(***************************************************************************)
(* Model of bein's execution/dispatch subsystem: the `execution` scope     *)
(* (bein/exe.py), the Execution object, and the @program binding with its  *)
(* synchronous call, its threaded-local Future and its LSF Future          *)
(* (bein/prog.py).                                                         *)
(*                                                                         *)
(* One Execution is modelled.  The main thread runs the body of the `with` *)
(* statement, then the finalisation of the context manager, and may go on  *)
(* using the Execution object and its Futures after the scope has exited.  *)
(* Worker threads of nonblocking dispatches run concurrently with it.      *)
(* Programs are called without the stdout=/stderr= keyword arguments.      *)
(***************************************************************************)
EXTENDS Integers, Sequences, FiniteSets, TLC

\* Bound on the number of calls made on the Execution (synchronous calls,
\* nonblocking dispatches, add and use).
MaxCalls == 2
\* Bound on the length of the Execution's program log.
MaxLog == 2
\* Number of Futures dispatched in the specification with fairness.
MaxWaited == 1
\* Number of Futures created by direct calls of _local and _lsf.
MaxDirect == 1

(***************************************************************************)
(* Python values.  Every value is a tagged record so that values of        *)
(* different Python types can be compared.                                 *)
(***************************************************************************)
None == [tag |-> "None"]

Str(s) == [tag |-> "str", s |-> s]

IntVal(i) == [tag |-> "int", i |-> i]

Exc(type) == [tag |-> "exc", type |-> type]

\* A callable object used as d["return_value"].
Callable(name) == [tag |-> "callable", name |-> name]

\* The Future object returned to the caller of nonblocking: futures[k].
FutureRef(k) == [tag |-> "future", k |-> k]

ProgramOutput(return_code, pid, arguments, stdout, stderr) ==
    [tag |-> "po", return_code |-> return_code, pid |-> pid,
     arguments |-> arguments, stdout |-> stdout, stderr |-> stderr]

ProgramFailed(output) == [tag |-> "exc", type |-> "ProgramFailed", output |-> output]

\* isinstance(x, Exception)
IsException(x) == x.tag = "exc"

callable(z) == z.tag = "callable"

(***************************************************************************)
(* The bound programs (the functions decorated with @program) and the      *)
(* behaviours of the external process.                                     *)
(***************************************************************************)
\* touch: a fixed return value; parse: a callable that takes the first line
\* of stdout (and raises IndexError when there is none); mkexc: a callable
\* that returns an exception object as its value.
Programs == {"touch", "parse", "mkexc"}

Args == {"a"}

\* d = self.gen_args(*args, **kwargs)
gen_args(prog, arg) ==
    [arguments |-> <<prog, arg>>,
     return_value |-> IF prog = "touch" THEN Str(arg) ELSE Callable(prog)]

\* z(po) for a callable z: either a returned value or a raised exception.
Apply(z, po) ==
    IF z.name = "parse"
    THEN IF po.stdout = <<>>
         THEN [raised |-> TRUE, value |-> Exc("IndexError")]
         ELSE [raised |-> FALSE, value |-> Str(Head(po.stdout))]
    ELSE [raised |-> FALSE, value |-> Exc("Warning")]

\* What subprocess.Popen and sp.wait() can do: the executable is missing
\* (OSError), or the process runs and exits with a return code and output.
NotStarted == [started |-> FALSE, return_code |-> 0, stdout |-> <<>>, stderr |-> <<>>]

Exited(rc, out) ==
    [started |-> TRUE, return_code |-> rc, stdout |-> out,
     stderr |-> IF rc = 0 THEN <<>> ELSE <<"err">>]

Behaviours == {NotStarted, Exited(0, <<>>), Exited(0, <<"x">>), Exited(1, <<>>)}

\* Popen(..., cwd = ex.working_directory) fails with OSError when the
\* working directory is gone.
BehavioursIn(dir) == IF dir THEN Behaviours ELSE {NotStarted}

VARIABLES
    lims,              \* the lims argument of execution(): "lims" or "None"
    pc,                \* position of the main thread in execution()
    programs,          \* ex.programs
    files,             \* ex.files
    used_files,        \* ex.used_files
    finished_at,       \* ex.finished_at
    id,                \* ex.id
    dirExists,         \* the working directory exists on disk
    visible,           \* names of the files present in the working directory
    exception_string,  \* local of execution()
    bodyExc,           \* the exception thrown into the generator, or None
    writes,            \* the calls of lims.write made so far
    writeExc,          \* the exception lims.write raised, or None
    callerSees,        \* what propagates out of the with statement
    rmCount,           \* number of times the working directory was removed
    futures,           \* the Futures created so far, with their worker threads
    ncalls,            \* number of calls made so far on the Execution
    last,              \* the most recent call of the main thread and its outcome
    waiting,           \* the Future whose Event the main thread is blocked on
    listing,           \* unique_filename_in: the entries of the directory path
    npc,               \* unique_filename_in: position in the function
    chosen,            \* unique_filename_in: the local filename
    checked,           \* the result of os.listdir(path) at the last test
    rejected,          \* some filename of the current call failed the test
    names              \* the names returned by the calls so far

exVars == <<programs, files, used_files, finished_at, id>>
scopeVars == <<lims, pc, exception_string, bodyExc, writes, writeExc, callerSees, rmCount>>
dirVars == <<dirExists, visible>>
nameVars == <<listing, npc, chosen, checked, rejected, names>>
mainVars == <<exVars, scopeVars, dirVars, futures, ncalls, last, waiting>>
vars == <<mainVars, nameVars>>

\* The main thread is not inside v.wait().  blocked is history: the Event
\* was not yet set when wait was called.
NotWaiting == [fut |-> 0, blocked |-> FALSE]

\* The record kept of a call of the main thread.  Besides the outcome it
\* holds history: the process behaviour, the descriptor, the lists of the
\* Execution before the call, whether the scope had exited, whether the
\* first argument was an Execution, and (order) the calls that have reported
\* a program so far, in the order they completed.
NoCall == [n |-> 0, op |-> "none", outcome |-> "return", value |-> None,
           beh |-> NotStarted, d |-> None, logBefore |-> <<>>, fut |-> 0,
           order |-> <<>>, exited |-> FALSE, isEx |-> TRUE,
           filesBefore |-> <<>>, usedBefore |-> <<>>, arg |-> None]

\* unique_filename_in is not running.
NamesIdle ==
    /\ listing = {}
    /\ npc = "idle"
    /\ chosen = <<>>
    /\ checked = {}
    /\ rejected = FALSE
    /\ names = <<>>

\* Execution.__init__ and the part of execution() before the yield.
ExecutionInit ==
    /\ lims \in {"lims", "None"}
    /\ pc = "body"
    /\ programs = <<>>
    /\ files = <<>>
    /\ used_files = <<>>
    /\ finished_at = None
    /\ id = None
    /\ dirExists = TRUE
    /\ visible = {}
    /\ exception_string = None
    /\ bodyExc = None
    /\ writes = <<>>
    /\ writeExc = None
    /\ callerSees = None
    /\ rmCount = 0
    /\ futures = <<>>
    /\ ncalls = 0
    /\ last = NoCall
    /\ waiting = NotWaiting

Init == ExecutionInit /\ NamesIdle

\* The main thread can call programs and Futures inside the with body and
\* after the with statement.
MainThreadFree == pc \in {"body", "exited"} /\ waiting = NotWaiting

\* A call op of the main thread, before its outcome is known.
Call(op) ==
    [n |-> last.n + 1, op |-> op, outcome |-> "return", value |-> None,
     beh |-> NotStarted, d |-> None, logBefore |-> programs, fut |-> 0,
     order |-> last.order, exited |-> pc = "exited", isEx |-> TRUE,
     filesBefore |-> files, usedBefore |-> used_files, arg |-> None]

\* report that keeps the log in the order the processes were dispatched.
report_DispatchOrder(log, program) ==
    IF Len(log) > 0 /\ program # None /\ log[Len(log)] # None
       /\ log[Len(log)].pid > program.pid
    THEN Append(SubSeq(log, 1, Len(log) - 1), program) \o <<log[Len(log)]>>
    ELSE Append(log, program)

\* report with the new entry put first.
report_Prepend(log, program) == <<program>> \o log

\* Execution.report
report(log, program) == Append(log, program)

\* The checks at the top of program.__call__ and program.nonblocking:
\* the exception raised, or None when the call may proceed.
Precondition(isExecution, exId) ==
    IF ~isExecution THEN Exc("ValueError")
    ELSE IF exId # None THEN Exc("SyntaxError")
    ELSE None

\* __call__ returning None on a nonzero return code, as the worker of
\* _local does, instead of raising ProgramFailed.
RunProgram_NoRaise(d, beh, pid) ==
    IF ~beh.started
    THEN [po |-> None, outcome |-> "raise", value |-> Exc("ValueError")]
    ELSE LET po == ProgramOutput(beh.return_code, pid, d.arguments, beh.stdout, beh.stderr)
             z == d.return_value
         IN  IF beh.return_code = 0 /\ callable(z)
             THEN [po |-> po,
                   outcome |-> IF Apply(z, po).raised THEN "raise" ELSE "return",
                   value |-> Apply(z, po).value]
             ELSE [po |-> po, outcome |-> "return",
                   value |-> IF beh.return_code = 0 THEN z ELSE None]

\* __call__ that records an outcome for a process that could not be started.
RunProgram_LogsMissing(d, beh, pid) ==
    LET po == ProgramOutput(beh.return_code, pid, d.arguments, beh.stdout, beh.stderr)
        z == d.return_value
    IN  IF ~beh.started
        THEN [po |-> po, outcome |-> "raise", value |-> Exc("ValueError")]
        ELSE IF beh.return_code = 0
             THEN IF callable(z)
                  THEN [po |-> po,
                        outcome |-> IF Apply(z, po).raised THEN "raise" ELSE "return",
                        value |-> Apply(z, po).value]
                  ELSE [po |-> po, outcome |-> "return", value |-> z]
             ELSE [po |-> po, outcome |-> "raise", value |-> ProgramFailed(po)]

\* program.__call__ from the Popen on: the ProgramOutput built (or None),
\* and the value returned or the exception raised.
RunProgram(d, beh, pid) ==
    IF ~beh.started
    THEN [po |-> None, outcome |-> "raise", value |-> Exc("ValueError")]
    ELSE LET po == ProgramOutput(beh.return_code, pid, d.arguments, beh.stdout, beh.stderr)
             z == d.return_value
         IN  IF beh.return_code = 0
             THEN IF callable(z)
                  THEN [po |-> po,
                        outcome |-> IF Apply(z, po).raised THEN "raise" ELSE "return",
                        value |-> Apply(z, po).value]
                  ELSE [po |-> po, outcome |-> "return", value |-> z]
             ELSE [po |-> po, outcome |-> "raise", value |-> ProgramFailed(po)]

\* program.__call__(ex, arg)
Invoke ==
    /\ MainThreadFree
    /\ ncalls < MaxCalls
    /\ \E isExecution \in BOOLEAN, prog \in Programs, arg \in Args :
         LET pre == Precondition(isExecution, id)
             d == gen_args(prog, arg)
         IN  IF pre # None
             THEN /\ last' = [Call("invoke") EXCEPT !.outcome = "raise", !.value = pre,
                                                     !.isEx = isExecution]
                  /\ UNCHANGED programs
             ELSE \E beh \in BehavioursIn(dirExists) :
                    LET r == RunProgram(d, beh, ncalls + 1)
                    IN  /\ programs' = IF r.po = None THEN programs
                                       ELSE report(programs, r.po)
                        /\ last' = [Call("invoke") EXCEPT
                                       !.outcome = r.outcome, !.value = r.value,
                                       !.beh = beh, !.d = d,
                                       !.order = IF r.po = None THEN @
                                                 ELSE Append(@, [op |-> "invoke",
                                                                 pid |-> ncalls + 1,
                                                                 fut |-> 0,
                                                                 exited |-> pc = "exited"])]
    /\ ncalls' = ncalls + 1
    /\ UNCHANGED <<nameVars, waiting, files, used_files, finished_at, id, scopeVars, dirVars, futures>>

(***************************************************************************)
(* Futures and worker threads.                                             *)
(***************************************************************************)
\* The names unique_filename_in gives the stdout and stderr files of the
\* k-th call when it is dispatched via LSF.
StdoutNames == <<"out1", "out2", "out3", "out4">>

StderrNames == <<"err1", "err2", "err3", "err4">>

\* cmds of program._lsf; remote_cmd is kept as its words.
LsfCommand(d, stdout, stderr) ==
    <<"bsub", "-cwd", "rwd", "-o", "/dev/null", "-e", "/dev/null", "-K", "-r", "(">>
        \o d.arguments \o <<">", stdout, ")", ">&", stderr>>

\* Future.__init__, with the Event v and the thread a of the enclosing call.
\* beh, caught and waits are history: the behaviour of the worker's process,
\* whether the worker's except clause ran, and the number of completed calls
\* of wait.  isEx: the ex of the enclosing call is an Execution.
NewFuture(via, d, pid) ==
    [via |-> via, d |-> d, pid |-> pid,
     stage |-> IF via = "local" THEN "start" ELSE "submit",
     program_output |-> None, return_value |-> None, vset |-> FALSE,
     stdout_value |-> None, beh |-> NotStarted, caught |-> FALSE, waits |-> 0,
     isEx |-> TRUE]

\* program.nonblocking(ex, arg, via=...) with program._local and program._lsf
\* up to the start of the worker thread.
NonblockingVia(vias) ==
    /\ MainThreadFree
    /\ ncalls < MaxCalls
    /\ \E isExecution \in BOOLEAN, prog \in Programs, arg \in Args, via \in vias :
         LET pre == Precondition(isExecution, id)
             d == gen_args(prog, arg)
             k == Len(futures) + 1
             call == [Call("nonblocking") EXCEPT !.d = d, !.isEx = isExecution]
         IN  IF pre # None
             THEN /\ last' = [call EXCEPT !.outcome = "raise", !.value = pre]
                  /\ UNCHANGED futures
             ELSE IF via = "local"
             THEN /\ futures' = Append(futures, NewFuture("local", d, ncalls + 1))
                  /\ last' = [call EXCEPT !.outcome = "return", !.value = FutureRef(k),
                                          !.fut = k]
             ELSE IF via = "lsf"
             THEN IF dirExists
                  THEN /\ futures' = Append(futures, NewFuture("lsf", d, ncalls + 1))
                       /\ last' = [call EXCEPT !.outcome = "return",
                                               !.value = FutureRef(k), !.fut = k]
                  ELSE \* os.listdir in unique_filename_in fails
                       /\ last' = [call EXCEPT !.outcome = "raise",
                                               !.value = Exc("OSError")]
                       /\ UNCHANGED futures
             ELSE /\ last' = [call EXCEPT !.outcome = "return", !.value = None]
                  /\ UNCHANGED futures
    /\ ncalls' = ncalls + 1
    /\ UNCHANGED <<nameVars, waiting, exVars, scopeVars, dirVars>>

\* The values of the keyword argument via: the two the code knows, and one
\* it does not.
Vias == {"local", "lsf", "ssh"}

Nonblocking == NonblockingVia(Vias)

\* The function g of program._local, run by the worker thread.
LocalWorker(f, beh) ==
    IF ~beh.started
    THEN [f EXCEPT !.return_value = IF f.isEx THEN Exc("ValueError")
                                    ELSE Exc("AttributeError"),
                   !.caught = TRUE,
                   !.vset = TRUE, !.stage = "done", !.beh = beh]
    ELSE LET po == ProgramOutput(beh.return_code, f.pid, f.d.arguments,
                                 beh.stdout, beh.stderr)
             z == f.d.return_value
             g == [f EXCEPT !.program_output = po, !.vset = TRUE, !.stage = "done",
                            !.beh = beh]
         IN  IF beh.return_code = 0
             THEN IF callable(z)
                  THEN IF Apply(z, po).raised
                       THEN [g EXCEPT !.return_value = Apply(z, po).value,
                                      !.caught = TRUE]
                       ELSE [g EXCEPT !.return_value = Apply(z, po).value]
                  ELSE [g EXCEPT !.return_value = z]
             ELSE g

LocalRun(k) ==
    /\ futures[k].via = "local"
    /\ futures[k].stage = "start"
    /\ \E beh \in BehavioursIn(dirExists /\ futures[k].isEx) :
         futures' = [futures EXCEPT ![k] = LocalWorker(futures[k], beh)]
    /\ UNCHANGED <<nameVars, waiting, exVars, scopeVars, dirVars, ncalls, last>>

\* g of program._lsf that builds the ProgramOutput as soon as bsub returns,
\* without polling for the output files.
LsfSubmitted_NoPolling(f, beh) ==
    IF ~beh.started
    THEN [f EXCEPT !.return_value = None, !.caught = TRUE, !.vset = TRUE,
                   !.stage = "dead", !.beh = beh]
    ELSE [f EXCEPT !.program_output =
                       ProgramOutput(beh.return_code, f.pid, f.d.arguments,
                                     beh.stdout, beh.stderr),
                   !.vset = TRUE, !.stage = "done", !.beh = beh]

\* g of program._lsf: Popen(cmds) and sp.wait().  bsub may be missing; the
\* except clause then sets the Event and the thread dies.
LsfSubmitted(f, beh) ==
    IF ~beh.started
    THEN [f EXCEPT !.return_value = None, !.caught = TRUE, !.vset = TRUE,
                   !.stage = "dead", !.beh = beh]
    ELSE [f EXCEPT !.stage = "poll_out", !.beh = beh]

LsfSubmit(k) ==
    /\ futures[k].via = "lsf"
    /\ futures[k].stage = "submit"
    /\ \E beh \in Behaviours :
         futures' = [futures EXCEPT ![k] = LsfSubmitted(futures[k], beh)]
    /\ UNCHANGED <<nameVars, waiting, exVars, scopeVars, dirVars, ncalls, last>>

\* The batch job's output files become visible in the working directory.
FileAppears(k) ==
    /\ futures[k].via = "lsf"
    /\ futures[k].stage \in {"poll_out", "poll_err"}
    /\ dirExists
    /\ \E name \in {StdoutNames[futures[k].pid], StderrNames[futures[k].pid]} \ visible :
         visible' = visible \cup {name}
    /\ UNCHANGED <<nameVars, waiting, exVars, scopeVars, dirExists, futures, ncalls, last>>

\* The except clause of g of program._lsf, entered when open or readlines
\* raises.
LsfReadFailed(f) ==
    [f EXCEPT !.return_value = None, !.caught = TRUE, !.vset = TRUE, !.stage = "dead"]

\* The first polling loop of g and the read of the stdout file.
LsfPollStdout(k) ==
    /\ futures[k].via = "lsf"
    /\ futures[k].stage = "poll_out"
    /\ StdoutNames[futures[k].pid] \in visible
    /\ \E readable \in BOOLEAN :
          futures' = [futures EXCEPT ![k] =
                         IF readable
                         THEN [futures[k] EXCEPT !.stdout_value = futures[k].beh.stdout,
                                                 !.stage = "poll_err"]
                         ELSE LsfReadFailed(futures[k])]
    /\ UNCHANGED <<nameVars, waiting, exVars, scopeVars, dirVars, ncalls, last>>

\* g of program._lsf that never sets the Event.
LsfFinished_NoSignal(f) ==
    [f EXCEPT !.program_output =
                  ProgramOutput(f.beh.return_code, f.pid,
                                LsfCommand(f.d, StdoutNames[f.pid], StderrNames[f.pid]),
                                f.stdout_value, f.beh.stderr),
              !.stage = "done"]

\* g of program._lsf that keeps the exception of the result computation in
\* the Future, as g of program._local does.
LsfFinished_KeepsFailure(f) ==
    LET po == ProgramOutput(f.beh.return_code, f.pid,
                            LsfCommand(f.d, StdoutNames[f.pid], StderrNames[f.pid]),
                            f.stdout_value, f.beh.stderr)
        z == f.d.return_value
        g == [f EXCEPT !.program_output = po, !.vset = TRUE, !.stage = "done"]
    IN  IF f.beh.return_code = 0
        THEN IF callable(z)
             THEN IF Apply(z, po).raised
                  THEN [g EXCEPT !.return_value = Apply(z, po).value, !.caught = TRUE,
                                 !.stage = "dead"]
                  ELSE [g EXCEPT !.return_value = Apply(z, po).value]
             ELSE [g EXCEPT !.return_value = z]
        ELSE g

\* g of program._lsf after the second polling loop.
LsfFinished(f) ==
    LET po == ProgramOutput(f.beh.return_code, f.pid,
                            LsfCommand(f.d, StdoutNames[f.pid], StderrNames[f.pid]),
                            f.stdout_value, f.beh.stderr)
        z == f.d.return_value
        g == [f EXCEPT !.program_output = po, !.vset = TRUE, !.stage = "done"]
    IN  IF f.beh.return_code = 0
        THEN IF callable(z)
             THEN IF Apply(z, po).raised
                  THEN [g EXCEPT !.return_value = None, !.caught = TRUE,
                                 !.stage = "dead"]
                  ELSE [g EXCEPT !.return_value = Apply(z, po).value]
             ELSE [g EXCEPT !.return_value = z]
        ELSE g

\* The second polling loop of g, the read of the stderr file and the rest of g.
LsfPollStderr(k) ==
    /\ futures[k].via = "lsf"
    /\ futures[k].stage = "poll_err"
    /\ StderrNames[futures[k].pid] \in visible
    /\ \E readable \in BOOLEAN :
          futures' = [futures EXCEPT ![k] = IF readable THEN LsfFinished(futures[k])
                                            ELSE LsfReadFailed(futures[k])]
    /\ UNCHANGED <<nameVars, waiting, exVars, scopeVars, dirVars, ncalls, last>>

\* Future.wait of program._local and of program._lsf: what is appended to
\* the log, and the value returned or the exception raised.
FutureWait(f) ==
    [reported |-> f.program_output,
     outcome |-> IF f.via = "local" /\ IsException(f.return_value)
                 THEN "raise" ELSE "return",
     value |-> f.return_value]

\* f.wait() by the main thread; v.wait() returns once the Event is set.
Wait(k) ==
    /\ MainThreadFree
    /\ futures[k].vset
    /\ Len(programs) < MaxLog
    /\ LET w == FutureWait(futures[k])
       IN  /\ programs' = report(programs, w.reported)
           /\ last' = [Call("wait") EXCEPT
                          !.outcome = w.outcome, !.value = w.value,
                          !.beh = futures[k].beh, !.d = futures[k].d, !.fut = k,
                          !.order = Append(@, [op |-> "wait", pid |-> futures[k].pid,
                                               fut |-> k, exited |-> pc = "exited"])]
           /\ futures' = [futures EXCEPT ![k].waits = @ + 1]
    /\ UNCHANGED <<nameVars, waiting, files, used_files, finished_at, id, scopeVars, dirVars, ncalls>>

\* f.wait() in two steps: the main thread enters v.wait() ...
WaitBegin(k) ==
    /\ MainThreadFree
    /\ Len(programs) < MaxLog
    /\ waiting' = [fut |-> k, blocked |-> ~futures[k].vset]
    /\ UNCHANGED <<nameVars, exVars, scopeVars, dirVars, futures, ncalls, last>>

\* ... and, once the Event is set, v.wait() returns and the rest of
\* Future.wait runs.
WaitEnd ==
    /\ waiting # NotWaiting
    /\ futures[waiting.fut].vset
    /\ LET k == waiting.fut
           w == FutureWait(futures[k])
       IN  /\ programs' = report(programs, w.reported)
           /\ last' = [Call("wait") EXCEPT
                          !.outcome = w.outcome, !.value = w.value,
                          !.beh = futures[k].beh, !.d = futures[k].d, !.fut = k,
                          !.arg = [blocked |-> waiting.blocked],
                          !.order = Append(@, [op |-> "wait", pid |-> futures[k].pid,
                                               fut |-> k, exited |-> pc = "exited"])]
           /\ futures' = [futures EXCEPT ![k].waits = @ + 1]
    /\ waiting' = NotWaiting
    /\ UNCHANGED <<nameVars, files, used_files, finished_at, id, scopeVars, dirVars, ncalls>>

(***************************************************************************)
(* Staging and fetching files: Execution.add and Execution.use             *)
(***************************************************************************)
FileNames == {"f", "g"}

\* The tuple Execution.add appends to self.files.
StagedFile(filename, description) ==
    [filename |-> filename, description |-> description, associate_to_id |-> None,
     associate_to_filename |-> None, template |-> None, alias |-> None]

\* add that stages the file without looking at the path.
add_Unchecked(staged, filename, description, exists) ==
    [files |-> Append(staged, StagedFile(filename, description)),
     outcome |-> "return", value |-> None]

\* Execution.add: exists is what os.path.exists(filename) answers.
add(staged, filename, description, exists) ==
    IF filename = None
    THEN [files |-> staged, outcome |-> "raise", value |-> Exc("IOError")]
    ELSE IF ~exists
         THEN [files |-> staged, outcome |-> "raise", value |-> Exc("IOError")]
         ELSE [files |-> Append(staged, StagedFile(filename, description)),
               outcome |-> "return", value |-> None]

\* A call of ex.add(filename) by the main thread.
Add ==
    /\ MainThreadFree
    /\ ncalls < MaxCalls
    /\ \E filename \in {None} \cup {Str(f) : f \in FileNames}, exists \in BOOLEAN :
          /\ filename = None => ~exists
          /\ LET r == add(files, filename, Str(""), exists) IN
                /\ files' = r.files
                /\ last' = [Call("add") EXCEPT
                               !.outcome = r.outcome, !.value = r.value,
                               !.arg = [filename |-> filename, exists |-> exists]]
    /\ ncalls' = ncalls + 1
    /\ UNCHANGED <<nameVars, waiting, programs, used_files, finished_at, id, scopeVars, dirVars, futures>>

\* What the repository answers to the calls of Execution.use: the id the
\* alias resolves to (0: resolve_alias raises), the number of associated
\* files, and the number of files that exportfile writes before it raises
\* ValueError (the file itself first, then its associated files).
FileIds == {7, 8}

UseBehaviours ==
    {[fileid |-> 0, associated |-> 0, exported |-> 0]}
    \cup {[fileid |-> i, associated |-> 1, exported |-> e] : i \in FileIds, e \in 0..2}

\* The repository can write into the working directory only while it exists.
UseBehavioursIn(dir) == {b \in UseBehaviours : dir \/ b.exported = 0}

\* The name exportfile gives the n-th file it writes for fileid.
ExportedName(fileid, n) ==
    IF fileid = 7 THEN <<"file7", "file7.idx">>[n] ELSE <<"file8", "file8.idx">>[n]

\* use that records the id before anything is exported.
use_RecordsFirst(fetched, l, b) ==
    IF l = "None"
    THEN [used_files |-> fetched, outcome |-> "raise", value |-> Exc("AttributeError"),
          written |-> {}]
    ELSE IF b.fileid = 0
         THEN [used_files |-> fetched, outcome |-> "raise", value |-> Exc("ValueError"),
               written |-> {}]
         ELSE [used_files |-> Append(fetched, IntVal(b.fileid)),
               outcome |-> IF b.exported < 1 + b.associated THEN "raise" ELSE "return",
               value |-> IF b.exported < 1 + b.associated THEN Exc("ValueError")
                         ELSE Str(ExportedName(b.fileid, 1)),
               written |-> {ExportedName(b.fileid, n) : n \in 1..b.exported}]

\* Execution.use: resolve_alias, exportfile of the file and of each
\* associated file, then the append to used_files.
use(fetched, l, b) ==
    IF l = "None"
    THEN [used_files |-> fetched, outcome |-> "raise", value |-> Exc("AttributeError"),
          written |-> {}]
    ELSE IF b.fileid = 0
         THEN [used_files |-> fetched, outcome |-> "raise", value |-> Exc("ValueError"),
               written |-> {}]
         ELSE IF b.exported < 1 + b.associated
              THEN [used_files |-> fetched, outcome |-> "raise",
                    value |-> Exc("ValueError"),
                    written |-> {ExportedName(b.fileid, n) : n \in 1..b.exported}]
              ELSE [used_files |-> Append(fetched, IntVal(b.fileid)),
                    outcome |-> "return", value |-> Str(ExportedName(b.fileid, 1)),
                    written |-> {ExportedName(b.fileid, n) : n \in 1..b.exported}]

\* A call of ex.use(file_or_alias) by the main thread.
Use ==
    /\ MainThreadFree
    /\ ncalls < MaxCalls
    /\ \E b \in UseBehavioursIn(dirExists) :
          LET r == use(used_files, lims, b) IN
             /\ used_files' = r.used_files
             /\ visible' = visible \cup r.written
             /\ last' = [Call("use") EXCEPT
                            !.outcome = r.outcome, !.value = r.value, !.arg = b]
    /\ ncalls' = ncalls + 1
    /\ UNCHANGED <<nameVars, waiting, programs, files, finished_at, id, scopeVars, dirExists, futures>>

(***************************************************************************)
(* The execution() context manager from the yield on.                      *)
(***************************************************************************)
\* traceback.format_exception
FormatException(e) == Str(e.type)

\* The exception the with body can raise: the one its last call raised,
\* or one of its own.
BodyExceptions ==
    IF last.outcome = "raise" THEN {last.value} ELSE {Exc("RuntimeError")}

\* The with body completes normally.
BodyReturns ==
    /\ pc = "body"
    /\ MainThreadFree
    /\ pc' = "finally"
    /\ UNCHANGED <<nameVars, waiting, exVars, dirVars, futures, ncalls, last, lims, exception_string,
                   bodyExc, writes, writeExc, callerSees, rmCount>>

\* The with body raises: the except clause of execution().
BodyRaises ==
    /\ pc = "body"
    /\ MainThreadFree
    /\ \E e \in BodyExceptions :
         /\ bodyExc' = e
         /\ exception_string' = FormatException(e)
    /\ pc' = "finally"
    /\ UNCHANGED <<nameVars, waiting, exVars, dirVars, futures, ncalls, last, lims, writes, writeExc,
                   callerSees, rmCount>>

\* int(time.time())
Times == {1}

\* finish leaving finished_at unset.
finish_Unset(t) == None

\* Execution.finish, called first in the finally clause.
finish(t) == IntVal(t)

Finish ==
    /\ pc = "finally"
    /\ \E t \in Times : finished_at' = finish(t)
    /\ pc' = "write"
    /\ UNCHANGED <<nameVars, waiting, programs, files, used_files, id, dirVars, futures, ncalls, last,
                   lims, exception_string, bodyExc, writes, writeExc, callerSees, rmCount>>

\* The identifiers lims.write can return.
ExecutionIds == {1, 2}

\* A call lims.write(ex, description, exception_string): the Execution as
\* write sees it, the trace argument, and the identifier write returns (None
\* when it raises).
\* write handed a log that also holds the outcomes of the Futures that have
\* finished but were never waited.
WriteCall_WithPending(trace, returned) ==
    [programs |-> programs \o
                  [i \in 1..Len(SelectSeq(futures, LAMBDA f : f.vset /\ f.waits = 0))
                     |-> SelectSeq(futures, LAMBDA f : f.vset /\ f.waits = 0)[i].program_output],
     files |-> files, used_files |-> used_files,
     finished_at |-> finished_at, dirExists |-> dirExists,
     exception_string |-> trace, returned |-> returned]

WriteCall(trace, returned) ==
    [programs |-> programs, files |-> files, used_files |-> used_files,
     finished_at |-> finished_at, dirExists |-> dirExists,
     exception_string |-> trace, returned |-> returned]

\* write called without the test of lims.
CallsWrite_Always(l) == TRUE

\* Whether execution() calls lims.write.
CallsWrite(l) == l # "None"

\* write called without the trace.
TraceArgument_Dropped == None

\* The third argument of lims.write.
TraceArgument == exception_string

\* if lims != None: ex.id = lims.write(ex, description, exception_string)
Write ==
    /\ pc = "write"
    /\ IF CallsWrite(lims)
       THEN \/ \E i \in ExecutionIds :
                 /\ writes' = Append(writes, WriteCall(TraceArgument, IntVal(i)))
                 /\ id' = IntVal(i)
                 /\ UNCHANGED writeExc
            \/ /\ writes' = Append(writes, WriteCall(TraceArgument, None))
               /\ writeExc' = Exc("IOError")
               /\ UNCHANGED id
       ELSE UNCHANGED <<writes, id, writeExc>>
    /\ pc' = "cleanup"
    /\ UNCHANGED <<nameVars, waiting, programs, files, used_files, finished_at, dirVars, futures, ncalls,
                   last, lims, exception_string, bodyExc, callerSees, rmCount>>

\* The failure of write swallowed by the cleanup.
Propagated_BodyOnly(body, write) == body

\* The exception of the body lost whenever write was called.
Propagated_WriteOnly(body, write) == write

\* What leaves the with statement: an exception raised in the finally
\* clause replaces the one being re-raised.
Propagated(body, write) == IF write # None THEN write ELSE body

\* The inner finally clause: shutil.rmtree(ex.working_directory), then the
\* pending exception propagates to the caller of the with statement.
Cleanup ==
    /\ pc = "cleanup"
    /\ dirExists' = FALSE
    /\ visible' = {}
    /\ rmCount' = rmCount + 1
    /\ callerSees' = Propagated(bodyExc, writeExc)
    /\ pc' = "exited"
    /\ UNCHANGED <<nameVars, waiting, exVars, futures, ncalls, last, lims, exception_string, bodyExc,
                   writes, writeExc>>

Next ==
    \/ Invoke
    \/ Nonblocking
    \/ \E k \in 1..Len(futures) : Wait(k)
    \/ Add
    \/ Use
    \/ \E k \in 1..Len(futures) : LocalRun(k)
    \/ \E k \in 1..Len(futures) : LsfSubmit(k)
    \/ \E k \in 1..Len(futures) : FileAppears(k)
    \/ \E k \in 1..Len(futures) : LsfPollStdout(k)
    \/ \E k \in 1..Len(futures) : LsfPollStderr(k)
    \/ BodyReturns
    \/ BodyRaises
    \/ Finish
    \/ Write
    \/ Cleanup

Spec == Init /\ [][Next]_vars

\* The scope with dispatch via LSF only, where a wait is followed from the
\* call of v.wait() to its return.
NextBlocking ==
    \/ Len(futures) < MaxWaited /\ NonblockingVia({"lsf"})
    \/ \E k \in 1..Len(futures) : WaitBegin(k)
    \/ WaitEnd
    \/ \E k \in 1..Len(futures) : LsfSubmit(k)
    \/ \E k \in 1..Len(futures) : FileAppears(k)
    \/ \E k \in 1..Len(futures) : LsfPollStdout(k)
    \/ \E k \in 1..Len(futures) : LsfPollStderr(k)
    \/ BodyReturns
    \/ BodyRaises
    \/ Finish
    \/ Write
    \/ Cleanup

\* The worker thread of a Future is scheduled fairly: a polling loop whose
\* file is there leaves the loop, and a v.wait() whose Event is set returns.
\* Nothing is assumed of bsub or of the file system.
Fairness ==
    /\ \A k \in 1..MaxWaited : WF_vars(k <= Len(futures) /\ LsfPollStdout(k))
    /\ \A k \in 1..MaxWaited : WF_vars(k <= Len(futures) /\ LsfPollStderr(k))
    /\ WF_vars(WaitEnd)

FairSpec == Init /\ [][NextBlocking]_vars /\ Fairness

(***************************************************************************)
(* Direct calls of the backend methods program._local and program._lsf.    *)
(***************************************************************************)
\* program._local(ex, arg) called directly: no test of ex; the Future is
\* created and the worker thread started.
LocalDirect ==
    /\ MainThreadFree
    /\ ncalls < MaxCalls
    /\ Len(futures) < MaxDirect
    /\ \E isExecution \in BOOLEAN, prog \in Programs, arg \in Args :
         LET d == gen_args(prog, arg)
             k == Len(futures) + 1
         IN  /\ futures' = Append(futures, [NewFuture("local", d, ncalls + 1)
                                               EXCEPT !.isEx = isExecution])
             /\ last' = [Call("_local") EXCEPT !.d = d, !.isEx = isExecution,
                                               !.value = FutureRef(k), !.fut = k]
    /\ ncalls' = ncalls + 1
    /\ UNCHANGED <<nameVars, waiting, exVars, scopeVars, dirVars>>

\* program._lsf(ex, arg) called directly: isinstance(ex, Execution) is
\* tested, ex.id is not; unique_filename_in lists ex.working_directory.
LsfDirect ==
    /\ MainThreadFree
    /\ ncalls < MaxCalls
    /\ Len(futures) < MaxDirect
    /\ \E isExecution \in BOOLEAN, prog \in Programs, arg \in Args :
         LET d == gen_args(prog, arg)
             k == Len(futures) + 1
             call == [Call("_lsf") EXCEPT !.d = d, !.isEx = isExecution]
         IN  IF ~isExecution
             THEN /\ last' = [call EXCEPT !.outcome = "raise",
                                          !.value = Exc("ValueError")]
                  /\ UNCHANGED futures
             ELSE IF dirExists
             THEN /\ futures' = Append(futures, NewFuture("lsf", d, ncalls + 1))
                  /\ last' = [call EXCEPT !.value = FutureRef(k), !.fut = k]
             ELSE /\ last' = [call EXCEPT !.outcome = "raise",
                                          !.value = Exc("OSError")]
                  /\ UNCHANGED futures
    /\ ncalls' = ncalls + 1
    /\ UNCHANGED <<nameVars, waiting, exVars, scopeVars, dirVars>>

\* The scope with direct calls of the backend methods and their workers.
NextDirect ==
    \/ LocalDirect
    \/ LsfDirect
    \/ \E k \in 1..Len(futures) : LocalRun(k)
    \/ \E k \in 1..Len(futures) : LsfSubmit(k)
    \/ \E k \in 1..Len(futures) : FileAppears(k)
    \/ \E k \in 1..Len(futures) : LsfPollStdout(k)
    \/ \E k \in 1..Len(futures) : LsfPollStderr(k)
    \/ BodyReturns
    \/ BodyRaises
    \/ Finish
    \/ Write
    \/ Cleanup

DirectSpec == Init /\ [][NextDirect]_vars

(***************************************************************************)
(* unique_filename_in (bein/__init__.py), on a directory of its own.       *)
(* A name is a sequence of characters.                                     *)
(***************************************************************************)
\* The length of the names random_string builds.
NameLength == 20

\* Number of successive calls of unique_filename_in.
MaxNames == 2

\* string.letters and string.digits, two letters and one digit of each.
Letters == {"a", "Z"}

Digits == {"7"}

\* n times the character c.
Repeat(c, n) == [i \in 1..n |-> c]

\* The strings random_string() can return: NameLength characters drawn from
\* string.letters + string.digits (here the first NameLength - 1 are equal).
random_string ==
    {Repeat(c, NameLength - 1) \o <<e>> : c \in Letters, e \in Letters \cup Digits}

\* startswith that holds of equal strings only.
StartsWith_Equal(f, prefix) == f = prefix

\* f.startswith(prefix)
StartsWith(f, prefix) ==
    Len(f) >= Len(prefix) /\ SubSeq(f, 1, Len(prefix)) = prefix

\* The entries the directory may hold: names of the generated form, a longer
\* name that starts with one, and a shorter one.
Entries ==
    {Repeat("a", NameLength - 1) \o <<"7">>,
     Repeat("a", NameLength - 1) \o <<"a">>,
     Repeat("Z", NameLength - 1) \o <<"7">>,
     Repeat("a", NameLength - 1) \o <<"Z", ".", "o">>,
     Repeat("Z", NameLength - 1) \o <<"Z", ".", "o">>,
     Repeat("a", 3)}

NameInit ==
    /\ ExecutionInit
    /\ listing \in SUBSET Entries
    /\ npc = "idle"
    /\ chosen = <<>>
    /\ checked = {}
    /\ rejected = FALSE
    /\ names = <<>>

\* unique_filename_in(path) is called.
NameCall ==
    /\ npc \in {"idle", "returned"}
    /\ Len(names) < MaxNames
    /\ npc' = "generate"
    /\ rejected' = FALSE
    /\ UNCHANGED <<mainVars, listing, chosen, checked, names>>

\* filename = random_string()
NameGenerate ==
    /\ npc = "generate"
    /\ chosen' \in random_string
    /\ npc' = "list"
    /\ UNCHANGED <<mainVars, listing, checked, rejected, names>>

\* files = [f for f in os.listdir(path) if f.startswith(filename)], the test
\* files == [] and either the break and the return or the next iteration.
NameList ==
    /\ npc = "list"
    /\ checked' = listing
    /\ IF {f \in listing : StartsWith(f, chosen)} = {}
       THEN /\ npc' = "returned"
            /\ names' = Append(names, chosen)
            /\ UNCHANGED rejected
       ELSE /\ npc' = "generate"
            /\ rejected' = TRUE
            /\ UNCHANGED names
    /\ UNCHANGED <<mainVars, listing, chosen>>

\* The caller or another process creates an entry in the directory.
NameCreated ==
    /\ \E e \in Entries \ listing : listing' = listing \cup {e}
    /\ UNCHANGED <<mainVars, npc, chosen, checked, rejected, names>>

NameNext ==
    \/ NameCall
    \/ NameGenerate
    \/ NameList
    \/ NameCreated

NameSpec == NameInit /\ [][NameNext]_vars

(***************************************************************************)
(* Properties.                                                             *)
(***************************************************************************)
Attached == lims # "None"

LastFuture == futures[last.fut]

\* C1: calling wait two or more times on a Future appends its ProgramOutput
\* to the log once in total: the first wait appends it, and the second and
\* later waits leave the log unchanged.
C1_WaitTwiceLogsOnce ==
    last.op = "wait" =>
        IF LastFuture.waits = 1
        THEN programs = Append(last.logBefore, LastFuture.program_output)
        ELSE programs = last.logBefore

\* C2: wait on a threaded-local Future raises ProgramFailed when the process
\* exited with a nonzero status, raises the transform's failure when the
\* transform raised, and returns a value only when the process exited with
\* status zero and the result policy produced the value without failure.
C2_ThreadedWaitReraisesFailure ==
    (last.op = "wait" /\ LastFuture.via = "local") =>
        LET f == LastFuture
            z == f.d.return_value
            failed == f.beh.started /\ f.beh.return_code # 0
            transformRaised == /\ f.beh.started
                               /\ f.beh.return_code = 0
                               /\ callable(z)
                               /\ Apply(z, f.program_output).raised
        IN  /\ failed => /\ last.outcome = "raise"
                         /\ last.value = ProgramFailed(f.program_output)
            /\ transformRaised => /\ last.outcome = "raise"
                                  /\ last.value = Apply(z, f.program_output).value
            /\ last.outcome = "return" =>
                   f.beh.started /\ f.beh.return_code = 0 /\ ~transformRaised

\* C3: the first wait on a threaded-local Future has the outcome of the
\* synchronous call on the same descriptor and process behaviour: the same
\* returned value, or the same raised failure.
C3_ThreadedEqualsSynchronous ==
    (last.op = "wait" /\ LastFuture.via = "local" /\ LastFuture.waits = 1) =>
        LET r == RunProgram(LastFuture.d, LastFuture.beh, LastFuture.pid)
        IN  /\ last.outcome = r.outcome
            /\ last.value = r.value

\* C4: a synchronous call whose process exits with a nonzero status raises
\* ProgramFailed carrying the ProgramOutput of that process, and that
\* ProgramOutput is then the last entry of the log.
C4_FailedInvokeIsLogged ==
    (last.op = "invoke" /\ last.beh.started /\ last.beh.return_code # 0) =>
        /\ last.outcome = "raise"
        /\ IsException(last.value)
        /\ last.value.type = "ProgramFailed"
        /\ last.value.output =
               ProgramOutput(last.beh.return_code, last.value.output.pid,
                             last.d.arguments, last.beh.stdout, last.beh.stderr)
        /\ programs # <<>>
        /\ programs[Len(programs)] = last.value.output

C4_Witness ==
    /\ last.op = "invoke"
    /\ last.beh.started
    /\ last.beh.return_code = 1
    /\ last.outcome = "raise"
    /\ Len(programs) = 2

\* C5: a synchronous call on an open Execution whose process exits with
\* status zero appends exactly one entry at the end of the log, with the
\* argument vector built by gen_args, and returns the fixed return value, or
\* what the callable yields on that entry.
C5_SuccessfulInvokeAppendsOne ==
    (last.op = "invoke" /\ last.beh.started /\ last.beh.return_code = 0) =>
        /\ Len(programs) = Len(last.logBefore) + 1
        /\ SubSeq(programs, 1, Len(last.logBefore)) = last.logBefore
        /\ LET po == programs[Len(programs)]
               z == last.d.return_value
           IN  /\ po.tag = "po"
               /\ po.arguments = last.d.arguments
               /\ po.return_code = 0
               /\ IF callable(z)
                  THEN /\ last.outcome = IF Apply(z, po).raised THEN "raise" ELSE "return"
                       /\ last.value = Apply(z, po).value
                  ELSE /\ last.outcome = "return"
                       /\ last.value = z

C5_Witness ==
    /\ last.op = "invoke"
    /\ last.beh.started
    /\ last.beh.return_code = 0
    /\ last.logBefore # <<>>
    /\ callable(last.d.return_value)
    /\ last.outcome = "return"

\* C6 as stated: the identifier is unset while the body runs, and once the
\* scope has exited it is set, to the identifier write returned, whether or
\* not a repository is attached.
C6_IdSetAfterEveryScope ==
    /\ pc = "body" => id = None
    /\ pc = "exited" => /\ id # None
                        /\ Len(writes) = 1
                        /\ id = writes[1].returned

\* C6, amended: the identifier is unset while the body runs and until write
\* is called; when a repository is attached and write returns, the identifier
\* is from then on the identifier that single call of write returned; when no
\* repository is attached or write raises, the identifier stays unset.
C6_IdSetOnceByWrite ==
    /\ pc \in {"body", "finally", "write"} => id = None
    /\ pc \in {"cleanup", "exited"} =>
           IF Attached /\ writeExc = None
           THEN /\ Len(writes) = 1
                /\ id # None
                /\ id = writes[1].returned
           ELSE id = None

C6_Witness ==
    /\ pc = "exited"
    /\ id # None
    /\ last.n > 0

\* C7 as stated: the working directory exists and the end timestamp is unset
\* during the body, the end timestamp is set when write is called, and the
\* directory is removed exactly once, only after write has been attempted.
C7_RemovedOnlyAfterWrite ==
    /\ pc = "body" => dirExists /\ finished_at = None
    /\ \A i \in 1..Len(writes) : writes[i].finished_at # None
    /\ rmCount <= 1
    /\ rmCount > 0 => Len(writes) > 0
    /\ pc = "exited" => rmCount = 1

\* C7, amended: the scope goes through body, end timestamp set, write called
\* if a repository is attached (skipped if none is), working directory
\* removed, in that order on every exit path; the directory exists during
\* the body and until it is removed, the end timestamp is unset during the
\* body and set before write is called, and the directory is removed exactly
\* once, after write has been attempted when a repository is attached.
C7_LifecycleOrder ==
    /\ pc \in {"body", "finally"} => finished_at = None
    /\ pc \in {"write", "cleanup", "exited"} => finished_at # None
    /\ pc \in {"body", "finally", "write"} => writes = <<>>
    /\ pc \in {"cleanup", "exited"} => Len(writes) = IF Attached THEN 1 ELSE 0
    /\ \A i \in 1..Len(writes) : writes[i].finished_at # None /\ writes[i].dirExists
    /\ pc # "exited" => dirExists /\ rmCount = 0
    /\ pc = "exited" => ~dirExists /\ rmCount = 1

C7_Witness ==
    /\ pc = "exited"
    /\ bodyExc # None
    /\ Len(writes) = 1
    /\ rmCount = 1

\* C8: when write raises, the working directory is removed before control
\* returns to the caller of the scope, and the caller then observes the
\* failure of write.
C8_WriteFailurePropagatesAfterCleanup ==
    writeExc # None =>
        \/ pc = "cleanup" /\ callerSees = None
        \/ pc = "exited" /\ ~dirExists /\ rmCount = 1 /\ callerSees = writeExc

C8_Witness ==
    /\ pc = "exited"
    /\ writeExc # None
    /\ bodyExc # None

\* C9: with a repository attached, write is called exactly once at
\* finalisation, with a trace if and only if the body raised; when the body
\* raised the working directory is still removed.
C9_WriteCalledOnceWithTrace ==
    /\ pc \in {"body", "finally", "write"} => writes = <<>>
    /\ (Attached /\ pc \in {"cleanup", "exited"}) =>
           /\ Len(writes) = 1
           /\ writes[1].exception_string # None <=> bodyExc # None
           /\ bodyExc # None => writes[1].exception_string = FormatException(bodyExc)
    /\ (pc = "exited" /\ bodyExc # None) => ~dirExists

C9_Witness ==
    /\ pc = "exited"
    /\ Attached
    /\ bodyExc # None
    /\ writes[1].exception_string # None

\* C10 as stated: whenever the body raised, the caller of the scope observes
\* that same exception, and only once the scope has exited.
C10_BodyExceptionAlwaysObserved ==
    /\ pc # "exited" => callerSees = None
    /\ (pc = "exited" /\ bodyExc # None) => callerSees = bodyExc

\* C10, amended: whenever the body raised and write did not raise, the caller
\* observes the body's exception, after write (if a repository is attached)
\* and the removal of the working directory; when write raised too, the
\* caller observes the failure of write in its place.
C10_BodyExceptionObservedUnlessWriteFails ==
    /\ pc # "exited" => callerSees = None
    /\ (pc = "exited" /\ bodyExc # None) =>
           /\ ~dirExists
           /\ Attached => Len(writes) = 1
           /\ callerSees = IF writeExc = None THEN bodyExc ELSE writeExc

C10_Witness ==
    /\ pc = "exited"
    /\ Attached
    /\ bodyExc # None
    /\ bodyExc.type = "ProgramFailed"
    /\ callerSees = bodyExc

\* C11: the log holds one entry for each synchronous invoke that ran a
\* process and for each wait, in the order in which these calls completed:
\* the i-th entry is the outcome of the i-th such call, whatever the order
\* in which the Futures were dispatched or their processes finished.
C11_LogInCompletionOrder ==
    /\ Len(programs) = Len(last.order)
    /\ \A i \in 1..Len(programs) :
          LET c == last.order[i]
          IN  IF c.op = "wait"
              THEN programs[i] = futures[c.fut].program_output
              ELSE programs[i] # None /\ programs[i].pid = c.pid

\* Two threaded Futures, the second one waited first: its outcome is first.
C11_Witness ==
    /\ Len(futures) = 2
    /\ futures[1].via = "local" /\ futures[2].via = "local"
    /\ futures[1].program_output # None /\ futures[2].program_output # None
    /\ programs = <<futures[2].program_output, futures[1].program_output>>
    /\ Len(last.order) = 2
    /\ last.order[1].op = "wait" /\ last.order[1].fut = 2
    /\ last.order[2].op = "wait" /\ last.order[2].fut = 1

\* The calls that reported a program before the scope exited.
ReportedInScope == {i \in 1..Len(last.order) : ~last.order[i].exited}

\* C12: the log, the staged files and the fetch log are what the most recent
\* call of the main thread left (no worker step changes them; a wait appends
\* one entry), and the log handed to write holds exactly the outcomes of the
\* invokes and waits completed before the scope exited: the outcome of a
\* Future that was not waited before the exit is not in it.
C12_WorkersLeaveExecutionAlone ==
    /\ IF last.op = "wait" \/ (last.op = "invoke" /\ last.beh.started)
       THEN /\ Len(programs) = Len(last.logBefore) + 1
            /\ SubSeq(programs, 1, Len(last.logBefore)) = last.logBefore
       ELSE programs = last.logBefore
    /\ files = IF last.op = "add" /\ last.outcome = "return"
               THEN Append(last.filesBefore, StagedFile(last.arg.filename, Str("")))
               ELSE last.filesBefore
    /\ used_files = IF last.op = "use" /\ last.outcome = "return"
                    THEN Append(last.usedBefore, IntVal(last.arg.fileid))
                    ELSE last.usedBefore
    /\ Len(writes) > 0 =>
          LET w == writes[1].programs
          IN  /\ Len(w) = Cardinality(ReportedInScope)
              /\ \A i \in 1..Len(w) : i \in ReportedInScope /\ w[i] = programs[i]
              /\ \A k \in 1..Len(futures) :
                    (\A i \in 1..Len(w) : ~(last.order[i].op = "wait"
                                            /\ last.order[i].fut = k))
                    => \A i \in 1..Len(w) : w[i] = None \/ w[i].pid # futures[k].pid

\* write was handed a log with one outcome while a Future whose process had
\* finished was never waited.
C12_Witness ==
    /\ Len(writes) > 0
    /\ Len(writes[1].programs) = 1
    /\ \E k \in 1..Len(futures) :
          /\ futures[k].vset /\ futures[k].waits = 0
          /\ futures[k].program_output # None
          /\ futures[k].program_output \notin {programs[i] : i \in 1..Len(programs)}

\* C13: a program called (synchronously or through nonblocking) after the
\* scope of its Execution has exited, or with a first argument that is not
\* an Execution, raises the precondition violation before any process or
\* worker thread is started, and the log is as before the call.
C13_TerminatedOrForeignIsRejected ==
    (last.op \in {"invoke", "nonblocking"} /\ (last.exited \/ ~last.isEx))
    => /\ last.outcome = "raise"
       /\ last.value \in {Exc("ValueError"), Exc("SyntaxError")}
       /\ ~last.beh.started
       /\ last.fut = 0
       /\ programs = last.logBefore

\* C14: a synchronous call that passes the precondition and whose process
\* cannot be started (the executable is missing) raises ValueError --- the
\* code's form of ExecutableNotFound --- and records no outcome: the log is
\* the same after the call as before it.
C14_MissingExecutableRaisesUnlogged ==
    (last.op = "invoke" /\ last.d # None /\ ~last.beh.started)
    => /\ last.outcome = "raise"
       /\ last.value = Exc("ValueError")
       /\ programs = last.logBefore
       /\ Len(last.order) = Len(last.logBefore)

\* A missing executable called in the scope body after one recorded call.
C14_Witness ==
    /\ last.op = "invoke" /\ last.d # None /\ ~last.beh.started
    /\ ~last.exited
    /\ Len(last.logBefore) = 1
    /\ programs = last.logBefore

StdoutOpened(f) ==
    f.stage \in {"poll_err", "done"} \/ (f.stage = "dead" /\ f.beh.started)

\* The output files of f that are in the working directory.
OutputFiles(f) == {StdoutNames[f.pid], StderrNames[f.pid]} \cap visible

\* C16 as stated: while the working directory exists and no exception was
\* caught, the worker of a Future dispatched via LSF has opened an output
\* file, built the ProgramOutput or set the Event only if bsub has returned
\* and both the stdout and the stderr file are in the directory.
C16_NothingBeforeBothFilesExist ==
    \A k \in 1..Len(futures) :
       LET f == futures[k]
       IN  (f.via = "lsf" /\ dirExists /\ ~f.caught
            /\ (StdoutOpened(f) \/ f.program_output # None \/ f.vset))
           => f.beh.started /\ Cardinality(OutputFiles(f)) = 2

\* C16, amended: the worker opens the stdout file only after bsub has
\* returned and the stdout file is in the directory; it builds the
\* ProgramOutput, and sets the Event outside its except clause, only after
\* both files are in the directory; and while bsub has returned, a file is
\* absent and no exception was caught, the Future is unresolved.
C16_EachFilePolledBeforeItIsRead ==
    \A k \in 1..Len(futures) :
       LET f == futures[k]
       IN  f.via = "lsf" =>
              /\ StdoutOpened(f)
                 => f.beh.started /\ (dirExists => StdoutNames[f.pid] \in visible)
              /\ f.program_output # None
                 => f.beh.started /\ (dirExists => Cardinality(OutputFiles(f)) = 2)
              /\ (f.vset /\ ~f.caught) => f.program_output # None
              /\ (f.beh.started /\ ~f.caught /\ dirExists
                  /\ Cardinality(OutputFiles(f)) < 2)
                 => ~f.vset /\ f.stage \in {"poll_out", "poll_err"}

\* The stdout file has been read, the stderr file is not there yet, and the
\* Future is unresolved.
C16_Witness ==
    \E k \in 1..Len(futures) :
       /\ futures[k].via = "lsf"
       /\ futures[k].stage = "poll_err"
       /\ dirExists
       /\ OutputFiles(futures[k]) = {StdoutNames[futures[k].pid]}
       /\ ~futures[k].vset

\* bsub has returned for the k-th Future.
BsubReturned(k) ==
    k <= Len(futures) /\ futures[k].via = "lsf" /\ futures[k].beh.started

\* The stdout and the stderr file of the k-th Future are in the directory.
BothVisible(k) == BsubReturned(k) /\ Cardinality(OutputFiles(futures[k])) = 2

Resolved(k) == k <= Len(futures) /\ futures[k].vset

\* C17 as stated: once bsub has returned and both output files are in the
\* working directory, the Future is eventually resolved.
C17_VisibleLeadsToResolved ==
    \A k \in 1..MaxWaited : BothVisible(k) ~> Resolved(k)

\* C17, amended: under fair scheduling of the worker, a caller blocked in
\* wait on a Future whose files are both in the directory eventually
\* returns; a Future whose files are eventually in the directory for good
\* is eventually resolved; and if the files are never both in the directory
\* the Future is never resolved except by the worker's except clause, and
\* no wait on it returns otherwise.
C17_BlockedWaitReturnsOnceFilesStay ==
    \A k \in 1..MaxWaited :
       /\ (waiting.fut = k /\ BothVisible(k)) ~> (waiting = NotWaiting)
       /\ <>[]BothVisible(k) => <>Resolved(k)
       /\ [](~BothVisible(k))
          => [](/\ Resolved(k) => futures[k].caught
                /\ (last.op = "wait" /\ last.fut = k) => futures[k].caught)

\* A wait that was blocked has returned after the worker found both files.
C17_Witness ==
    /\ last.op = "wait"
    /\ last.arg = [blocked |-> TRUE]
    /\ LastFuture.via = "lsf"
    /\ LastFuture.program_output # None
    /\ ~LastFuture.caught
    /\ waiting = NotWaiting

C19_UseRecordsAfterExport ==
    last.op = "use" =>
       LET b == last.arg
           succeeds == Attached /\ b.fileid # 0 /\ b.exported = 1 + b.associated
       IN  IF succeeds
           THEN /\ last.outcome = "return"
                /\ used_files = Append(last.usedBefore, IntVal(b.fileid))
                /\ last.value = Str(ExportedName(b.fileid, 1))
                /\ dirExists =>
                      {ExportedName(b.fileid, n) : n \in 1..(1 + b.associated)}
                         \subseteq visible
           ELSE /\ last.outcome = "raise"
                /\ IsException(last.value)
                /\ used_files = last.usedBefore

\* A second file was fetched: its id is the last of two in the fetch log and
\* its associated file is in the working directory.
C19_Witness ==
    /\ last.op = "use" /\ last.outcome = "return"
    /\ Len(used_files) = 2
    /\ used_files[1] # used_files[2]
    /\ used_files[2] = IntVal(last.arg.fileid)
    /\ ExportedName(last.arg.fileid, 2) \in visible

\* The alphanumeric characters of the model.
Alphanumeric == {"a", "Z", "7"}

\* C20: a name returned by unique_filename_in has NameLength characters, all
\* alphanumeric, and no entry that was in the directory at the last listing
\* starts with it; every name returned so far has that form.
C20_ReturnedNameIsFresh ==
    /\ npc = "returned" =>
          /\ Len(chosen) = NameLength
          /\ \A i \in 1..Len(chosen) : chosen[i] \in Alphanumeric
          /\ \A f \in checked :
                ~(Len(f) >= NameLength /\ \A i \in 1..NameLength : f[i] = chosen[i])
          /\ names[Len(names)] = chosen
    /\ \A j \in 1..Len(names) :
          /\ Len(names[j]) = NameLength
          /\ \A i \in 1..NameLength : names[j][i] \in Alphanumeric

\* The second call in a directory that holds the name the first call
\* returned and a longer entry: a candidate was rejected and another name
\* was returned.
C20_Witness ==
    /\ npc = "returned"
    /\ Len(names) = 2
    /\ rejected
    /\ names[1] \in checked
    /\ \E f \in checked : Len(f) > NameLength
    /\ names[2] # names[1]

\* C21: every entry of the log is a ProgramOutput; None is never appended,
\* whatever synchronous calls, dispatches and waits were made.
C21_LogHoldsOnlyOutcomes ==
    \A i \in 1..Len(programs) : programs[i] # None /\ programs[i].tag = "po"

\* C22: once the scope has exited and the Execution was handed to write, the
\* log, the staged files and the fetch log stay what write was handed: no
\* later wait, add or use changes them.
C22_ListsFrozenAfterWrite ==
    (pc = "exited" /\ Len(writes) = 1)
    => /\ programs = writes[1].programs
       /\ files = writes[1].files
       /\ used_files = writes[1].used_files

\* C23: for every value of via, nonblocking called in the scope body with an
\* Execution either raises or returns a Future it has created (with its
\* worker thread); it never returns None.
C23_NonblockingRaisesOrReturnsFuture ==
    (last.op = "nonblocking" /\ last.isEx /\ ~last.exited)
    => \/ last.outcome = "raise"
       \/ /\ last.fut \in 1..Len(futures)
          /\ last.value = FutureRef(last.fut)

\* C24: a wait on a threaded Future raises exactly when the worker caught an
\* exception; when the worker ended without one, wait returns the value the
\* worker stored, whatever its kind.
C24_WaitRaisesOnlyCaughtFailure ==
    (last.op = "wait" /\ LastFuture.via = "local")
    => IF LastFuture.caught
       THEN last.outcome = "raise"
       ELSE last.outcome = "return" /\ last.value = LastFuture.return_value

\* C25: _local or _lsf called directly with a first argument that is not an
\* Execution, or with an Execution whose id is set, raises, and no Future
\* with its worker thread is created.
C25_DirectCallsEnforcePreconditions ==
    (last.op \in {"_local", "_lsf"} /\ (~last.isEx \/ (last.exited /\ id # None)))
    => /\ last.outcome = "raise"
       /\ last.fut = 0
       /\ futures = <<>>

====
